---- MODULE Spec2Model ----
(***************************************************************************)
(* Model of twitch_all_campaigns_snapshot.py: the parse / identity /       *)
(* dedup / snapshot / diff / notify pipeline of one run of main().         *)
(*                                                                         *)
(* Text is a sequence of tokens.  A token is a TLA+ string standing for an *)
(* indivisible run of characters (a word, a separator character, a blank,  *)
(* a line break); the Python string is the concatenation of its tokens.    *)
(***************************************************************************)
EXTENDS Integers, Sequences, FiniteSets, TLC

VARIABLES
    pc,          \* position of the run inside main(), or the stage of a pure-function check
    file,        \* content of data/campaigns.json (SNAPSHOT)
    stateFile,   \* TRUE iff twitch_storage_state.json (TMP_STATE) exists
    secret,      \* the TWITCH_STATE_B64 environment variable
    telegram,    \* TRUE iff BOT_TOKEN and CHAT_ID are both set
    targets,     \* TARGET_SLUGS
    page,        \* the rows of the rendered page, as the row extractor yields them
    fields,      \* inputs of the identity function: two (slug, timeframe, rewards) triples
    item,        \* result of parse_campaign_row
    prev,        \* main's prev (load_previous result)
    snap,        \* main's snap (scrape_all_campaigns result)
    d,           \* main's diff (diff_campaigns result)
    sent,        \* the tg_send calls made so far in this run
    cause,       \* why the run stopped early, "" while it has not
    fileAtStart, \* history: content of SNAPSHOT when the current run started
    runs         \* number of runs of main() started

vars == <<pc, file, stateFile, secret, telegram, targets, page, fields, item,
          prev, snap, d, sent, cause, fileAtStart, runs>>

----------------------------------------------------------------------------
(* Bounds *)

MaxCampaigns == 3      \* records in the two snapshots given to diff_campaigns, together
MaxRows      == 2      \* rows on the page in one run of main()
MaxScrapeRows == 3     \* rows on the page given to scrape_all_campaigns alone
MaxRuns      == 2      \* runs of main()
MaxLineLen   == 2      \* tokens in one reward line given to the identity function
MaxRewards   == 2      \* reward lines of a record given to the identity function

NoDiff == [added |-> <<>>, removed |-> <<>>, changed |-> <<>>]

R6Slug == "tom-clancys-rainbow-six-siege"

\* the row text of the parser's scenario, as the page renders it
C10TextRaw ==
    <<"R6", " ", "Siege", " ", "Drops", "\n",
      "Watch", " ", "4", " ", "hours", " ", "to", " ", "earn", " ", "charm...", "\n",
      "Jan", " ", "10", " ", "-", " ", "Jan", " ", "24">>

\* An optional value: Python's None, or a value that is present
None    == [has |-> FALSE]
Some(v) == [has |-> TRUE, v |-> v]

----------------------------------------------------------------------------
(* Generic helpers *)

Range(s) == {s[i] : i \in DOMAIN s}

SeqsUpTo(S, n) == UNION {[1..k -> S] : k \in 0..n}

\* every order in which the elements of a finite set can be iterated
Orderings(S) ==
    {s \in [1..Cardinality(S) -> S] : \A i, j \in DOMAIN s : i # j => s[i] # s[j]}

\* sep.join(parts) on token sequences
RECURSIVE JoinWith(_, _)
JoinWith(parts, sep) ==
    IF parts = <<>> THEN <<>>
    ELSE IF Len(parts) = 1 THEN parts[1]
    ELSE parts[1] \o sep \o JoinWith(Tail(parts), sep)

\* len(str): the number of characters of a token sequence
RECURSIVE StrLen(_)
StrLen(s) == IF s = <<>> THEN 0 ELSE Len(Head(s)) + StrLen(Tail(s))

\* the Python string a token sequence stands for
RECURSIVE Flat(_)
Flat(s) == IF s = <<>> THEN "" ELSE Head(s) \o Flat(Tail(s))

\* s[:n]: the first n characters.  A token cut in the middle is kept as a
\* token naming the cut.
RECURSIVE Truncate(_, _)
Truncate(s, n) ==
    IF s = <<>> \/ n <= 0 THEN <<>>
    ELSE IF Len(Head(s)) <= n THEN <<Head(s)>> \o Truncate(Tail(s), n - Len(Head(s)))
    ELSE <<Head(s) \o "[:" \o ToString(n) \o "]">>

\* lst[:n]
Take(lst, n) == SubSeq(lst, 1, IF Len(lst) < n THEN Len(lst) ELSE n)

\* dict.get(key): None when the key is absent
Get(c, key) == IF key \in DOMAIN c THEN Some(c[key]) ELSE None

\* bool(v) of an optional string or list
Truthy(o) == o.has /\ o.v # <<>>

Snapshot(at, campaigns) ==
    [scraped_at |-> at, count |-> Len(campaigns), campaigns |-> campaigns]

----------------------------------------------------------------------------
(* Text helpers of the parser *)

Whitespace == {" ", "\n", "\t", "\r"}
LineBreaks == {"\n", "\r"}

\* the pieces of s between the tokens of Seps (empty pieces included)
RECURSIVE SplitOn(_, _)
SplitOn(s, Seps) ==
    IF s = <<>> THEN << <<>> >>
    ELSE LET rest == SplitOn(Tail(s), Seps)
         IN  IF Head(s) \in Seps THEN << <<>> >> \o rest
             ELSE << <<Head(s)>> \o rest[1] >> \o Tail(rest)

RECURSIVE NonEmpty(_)
NonEmpty(ss) ==
    IF ss = <<>> THEN <<>>
    ELSE IF Head(ss) = <<>> THEN NonEmpty(Tail(ss))
    ELSE <<Head(ss)>> \o NonEmpty(Tail(ss))

\* str.strip()
RECURSIVE LStrip(_)
LStrip(s) == IF s # <<>> /\ Head(s) \in Whitespace THEN LStrip(Tail(s)) ELSE s

RECURSIVE RStrip(_)
RStrip(s) ==
    IF s # <<>> /\ s[Len(s)] \in Whitespace THEN RStrip(SubSeq(s, 1, Len(s) - 1)) ELSE s

Strip(s) == RStrip(LStrip(s))

\* " ".join(txt.split()): runs of whitespace become one blank, none at the ends
Normalize(txt) == JoinWith(NonEmpty(SplitOn(txt, Whitespace)), <<" ">>)

\* [l.strip() for l in re.split(r"[\r\n]+", text) if l.strip()]
SplitLines(text) ==
    LET parts == SplitOn(text, LineBreaks)
    IN  NonEmpty([i \in DOMAIN parts |-> Strip(parts[i])])

----------------------------------------------------------------------------
(* The token classes the regular expressions and substring tests see.  Each *)
(* class lists the tokens of the model's vocabulary that the pattern        *)
(* matches.                                                                 *)

\* TIME_RE.search: a month, weekday or timezone name anywhere in the token
TimeTokens == {"Jan", "Feb", "UTC", "Monday"}

\* \bwatch\b (re.I)
WatchTokens == {"Watch", "watch"}

\* \b\d+(\.\d+)?  followed by blanks
NumberTokens == {"4", "10", "24", "2.5"}

\* (hours?|hrs?|h)\b
HourTokens == {"hours", "hour", "hrs", "h"}

\* a number and its unit written together
NumberHourTokens == {"4h", "2hrs"}

\* DROP_RE: \bdrop(s)?\b (re.I)
DropWordTokens == {"Drops", "drops", "Drop", "drop"}

\* "drop" in ln.lower()
DropSubTokens == DropWordTokens \cup {"Raindrops"}

\* "campaign" in ln.lower()
CampaignSubTokens == {"Campaign", "campaign", "Campaigns"}

\* "watch" in ln.lower()
WatchSubTokens == WatchTokens \cup {"Stopwatch"}

HasToken(ln, Class) == \E i \in DOMAIN ln : ln[i] \in Class

TimeMatch(ln) == HasToken(ln, TimeTokens)

\* WATCH_RE.search(ln)
WatchMatch(ln) ==
    \E i, j \in DOMAIN ln :
        /\ i < j
        /\ ln[i] \in WatchTokens
        /\ \/ ln[j] \in NumberHourTokens
           \/ /\ ln[j] \in NumberTokens
              /\ j + 2 <= Len(ln)
              /\ ln[j + 1] = " "
              /\ ln[j + 2] \in HourTokens

DropMatch(ln) == HasToken(ln, DropWordTokens)

\* the first element of lst at an index of At (the indexes that pass the
\* loop's test), else dflt
FirstOr(lst, At, dflt) ==
    IF At = {} THEN dflt
    ELSE lst[CHOOSE i \in At : \A j \in At : i <= j]

----------------------------------------------------------------------------
(* Row elements.  A row element el has                                     *)
(*   inner    what el.inner_text() does: [kind |-> "raise"] or a text       *)
(*   content  what el.evaluate(textContent) does: raise, null or a text     *)
(*   hrefs    the href attributes of its anchors, in order                  *)
(*   anchors_read  how many anchors are read before the locator raises      *)
(*                 (Len(hrefs) when it does not)                            *)
(* An href is [rel, host, segs]: rel iff it starts with "/", host the part *)
(* before the path, segs the path segments.                                 *)

Raise     == [kind |-> "raise"]
Null      == [kind |-> "null"]
Text(t)   == [kind |-> "text", v |-> t]

Origin == "https://www.twitch.tv"

Href(rel, host, segs) == [rel |-> rel, host |-> host, segs |-> segs]

\* str.lower() on the path segments of the model's vocabulary
Lower(seg) ==
    CASE seg = "Hades-II" -> "hades-ii"
      [] seg = "Category" -> "category"
      [] OTHER -> seg

\* row_text
RowText(el) ==
    IF el.inner.kind = "text" THEN Normalize(el.inner.v)
    ELSE IF el.content.kind = "text" THEN Normalize(el.content.v)
    ELSE <<>>

\* row_links: relative hrefs are resolved against the origin; the links read
\* before an exception are kept
RowLinks(el) ==
    [i \in 1..el.anchors_read |->
        IF el.hrefs[i].rel THEN Href(FALSE, Origin, el.hrefs[i].segs) ELSE el.hrefs[i]]

\* the match of https://www\.twitch\.tv/directory/(category/)?([^/?#]+)
LinkMatches(h) ==
    /\ ~h.rel
    /\ h.host = Origin
    /\ Len(h.segs) >= 2
    /\ Lower(h.segs[1]) = "directory"

LinkSlug(h) ==
    IF Lower(h.segs[2]) = "category" /\ Len(h.segs) >= 3
    THEN Lower(h.segs[3]) ELSE Lower(h.segs[2])

\* extract_game_from_links
ExtractGameFromLinks(links) ==
    IF \E i \in DOMAIN links : LinkMatches(links[i])
    THEN Some([game_slug |->
                 LinkSlug(FirstOr(links, {i \in DOMAIN links : LinkMatches(links[i])}, Null))])
    ELSE None

----------------------------------------------------------------------------
(* Identity: lines 161-162 *)

\* f"{game_slug}|{timeframe}|{','.join(rewards)}"
Basis(game_slug, timeframe, rewards) ==
    game_slug \o "|" \o Flat(timeframe) \o "|" \o Flat(JoinWith(rewards, <<",">>))

\* hashlib.sha256(basis).hexdigest()[:16], taken as free of collisions: an
\* injective image of the hashed string
Sha16(basis) == "sha256[:16](" \o basis \o ")"

IdOf(game_slug, timeframe, rewards) == Sha16(Basis(game_slug, timeframe, rewards))

----------------------------------------------------------------------------
(* parse_campaign_row *)

\* the first " - " of a string: the position of its dash
DashAt(tf) ==
    {i \in 2..(Len(tf) - 1) : tf[i - 1] = " " /\ tf[i] = "-" /\ tf[i + 1] = " "}

FirstDash(tf) == CHOOSE i \in DashAt(tf) : \A j \in DashAt(tf) : i <= j

\* game_info["game_slug"].replace("-", " ").title()
SlugTitle(slug) == <<slug \o ".replace('-',' ').title()">>

\* the item dict of lines 150-162, its id included
Item(game_name, game_slug, title, timeframe, start_raw, end_raw, rewards, text) ==
    [game_name      |-> game_name,
     game_slug      |-> game_slug,
     campaign_title |-> title,
     timeframe      |-> timeframe,
     start_raw      |-> start_raw,
     end_raw        |-> end_raw,
     rewards        |-> rewards,
     raw_text       |-> text,
     id             |-> IdOf(game_slug, timeframe, rewards)]

ParseCampaignRow(el) ==
    LET text == RowText(el)
        game_info == ExtractGameFromLinks(RowLinks(el))
        lines == SplitLines(text)
        IsName(ln)   == StrLen(ln) <= 50 /\ ~HasToken(ln, CampaignSubTokens)
        IsReward(ln) == WatchMatch(ln) \/ (DropMatch(ln) /\ StrLen(ln) <= 160)
        IsTitle(ln)  == /\ \/ HasToken(ln, DropSubTokens)
                           \/ HasToken(ln, CampaignSubTokens)
                           \/ HasToken(ln, WatchSubTokens)
                        /\ StrLen(ln) <= 120
        At(lst, Test(_)) == {i \in DOMAIN lst : Test(lst[i])}
        game_name == FirstOr(Take(lines, 4), At(Take(lines, 4), IsName), <<>>)
        timeframe == FirstOr(lines, At(lines, TimeMatch), <<>>)
        rewards   == SelectSeq(lines, IsReward)
        title0    == FirstOr(Take(lines, 6), At(Take(lines, 6), IsTitle), <<>>)
        title     == IF title0 = <<>> /\ lines # <<>> THEN lines[1] ELSE title0
        dash      == DashAt(timeframe) # {}
        start_raw == IF dash THEN Strip(SubSeq(timeframe, 1, FirstDash(timeframe) - 2))
                     ELSE <<>>
        end_raw   == IF dash
                     THEN Strip(SubSeq(timeframe, FirstDash(timeframe) + 2, Len(timeframe)))
                     ELSE <<>>
    IN  IF text = <<>> \/ StrLen(text) < 20 THEN None
        ELSE IF ~game_info.has THEN None
        ELSE Some(Item(IF game_name # <<>> THEN game_name
                       ELSE SlugTitle(game_info.v.game_slug),
                       game_info.v.game_slug, title, timeframe,
                       IF start_raw # <<>> THEN Some(start_raw) ELSE None,
                       IF end_raw # <<>> THEN Some(end_raw) ELSE None,
                       rewards, text))

----------------------------------------------------------------------------
(* diff_campaigns *)

\* old.get("campaigns", [])
Campaigns(s) == IF "campaigns" \in DOMAIN s THEN s.campaigns ELSE <<>>

IdsOf(campaigns) == {campaigns[i].id : i \in DOMAIN campaigns}

\* {c["id"]: c for c in campaigns}: a later record replaces an earlier one
IndexByIdFirstWins(campaigns) ==
    [k \in IdsOf(campaigns) |->
        campaigns[CHOOSE i \in DOMAIN campaigns :
            /\ campaigns[i].id = k
            /\ \A j \in DOMAIN campaigns : campaigns[j].id = k => i <= j]]

IndexById(campaigns) ==
    [k \in IdsOf(campaigns) |->
        campaigns[CHOOSE i \in DOMAIN campaigns :
            /\ campaigns[i].id = k
            /\ \A j \in DOMAIN campaigns : campaigns[j].id = k => j <= i]]

\* new_map.keys() - old_map.keys()
AddedIds(old, new) ==
    DOMAIN IndexById(Campaigns(new)) \ DOMAIN IndexById(Campaigns(old))

\* old_map.keys() - new_map.keys()
RemovedIds(old, new) ==
    DOMAIN IndexById(Campaigns(old)) \ DOMAIN IndexById(Campaigns(new))

\* the keys of old_map.keys() & new_map.keys() that pass the test of line 231
ChangedIdsInverted(old, new) ==
    LET old_map == IndexById(Campaigns(old))
        new_map == IndexById(Campaigns(new))
    IN  {k \in DOMAIN old_map \cap DOMAIN new_map :
            \/ Get(old_map[k], "timeframe") = Get(new_map[k], "timeframe")
            \/ Get(old_map[k], "rewards") = Get(new_map[k], "rewards")}

ChangedIds(old, new) ==
    LET old_map == IndexById(Campaigns(old))
        new_map == IndexById(Campaigns(new))
    IN  {k \in DOMAIN old_map \cap DOMAIN new_map :
            \/ Get(old_map[k], "timeframe") # Get(new_map[k], "timeframe")
            \/ Get(old_map[k], "rewards") # Get(new_map[k], "rewards")}

\* Every result diff_campaigns(old, new) can return.  The three lists are
\* built by iterating over sets of str, whose order is not fixed by the
\* language (str hashes are randomised per process).
DiffCampaigns(old, new) ==
    LET old_map == IndexById(Campaigns(old))
        new_map == IndexById(Campaigns(new))
    IN  {[added   |-> [i \in DOMAIN a |-> new_map[a[i]]],
          removed |-> [i \in DOMAIN r |-> old_map[r[i]]],
          changed |-> [i \in DOMAIN c |-> new_map[c[i]]]] :
            a \in Orderings(AddedIds(old, new)),
            r \in Orderings(RemovedIds(old, new)),
            c \in Orderings(ChangedIds(old, new))}

----------------------------------------------------------------------------
(* notify_for_targets and tg_send *)

\* [c for c in lst if c["game_slug"] in TARGET_SLUGS]
RECURSIVE ForTargets(_, _)
ForTargets(lst, slugs) ==
    IF lst = <<>> THEN <<>>
    ELSE IF Head(lst).game_slug \in slugs
         THEN <<Head(lst)>> \o ForTargets(Tail(lst), slugs)
         ELSE ForTargets(Tail(lst), slugs)

\* f"* {c['game_name']}: {c.get('timeframe') or 'Dates TBA'}" (the bullet
\* character is written "* ")
EntryLine(c) ==
    LET tf == Get(c, "timeframe")
    IN  <<"* ">> \o c.game_name \o <<": ">>
           \o (IF Truthy(tf) THEN tf.v ELSE <<"Dates TBA">>)

\* the lines of the digest, lines 243-255
DigestLines(added, changed) ==
    LET pick == Take(added \o changed, 1)
        rw   == IF pick = <<>> THEN None ELSE Get(pick[1], "rewards")
    IN  <<  <<"Twitch Drops update (targets)">>  >>
        \o (IF added = <<>> THEN <<>>
            ELSE <<  <<"New: ", ToString(Len(added))>>  >>
                 \o [i \in 1..Len(Take(added, 3)) |-> EntryLine(added[i])])
        \o (IF changed = <<>> THEN <<>>
            ELSE <<  <<"Updated: ", ToString(Len(changed))>>  >>
                 \o [i \in 1..Len(Take(changed, 2)) |-> EntryLine(changed[i])])
        \o (IF Truthy(rw) THEN <<  <<"Rewards: ">> \o Truncate(JoinWith(rw.v, <<"; ">>), 200)  >>
            ELSE <<>>)

\* The texts notify_for_targets hands to tg_send: none, or one digest.
NotifyAlsoRemoved(dd, slugs) ==
    LET added   == ForTargets(dd.added \o dd.removed, slugs)
        changed == ForTargets(dd.changed, slugs)
    IN  IF added = <<>> /\ changed = <<>> THEN <<>>
        ELSE << JoinWith(DigestLines(added, changed), <<"\n">>) >>

NotifyForTargets(dd, slugs) ==
    LET added   == ForTargets(dd.added, slugs)
        changed == ForTargets(dd.changed, slugs)
    IN  IF added = <<>> /\ changed = <<>> THEN <<>>
        ELSE << JoinWith(DigestLines(added, changed), <<"\n">>) >>

\* tg_send(text): what becomes of one call.  Without BOT_TOKEN/CHAT_ID the
\* text is printed; otherwise it is posted, and a failed post is caught and
\* logged.
TgSend(text, configured) ==
    IF ~configured THEN {[text |-> text, result |-> "printed"]}
    ELSE {[text |-> text, result |-> "posted"],
          [text |-> text, result |-> "send error logged"]}

----------------------------------------------------------------------------
(* Python values read from the snapshot file.  A dict is a record; a value *)
(* that is no dict is a record with a pytype field.                         *)

PyList == [pytype |-> "list"]        \* the JSON document []
PyNull == [pytype |-> "NoneType"]    \* the JSON document null

IsDict(v) == "pytype" \notin DOMAIN v

\* diff_campaigns raises: old.get on a value that is no dict (AttributeError),
\* or c["id"] on a record without that key (KeyError)
DiffRaises(old, new) ==
    \/ ~IsDict(old)
    \/ ~IsDict(new)
    \/ \E i \in DOMAIN Campaigns(old) : "id" \notin DOMAIN Campaigns(old)[i]
    \/ \E i \in DOMAIN Campaigns(new) : "id" \notin DOMAIN Campaigns(new)[i]

----------------------------------------------------------------------------
(* The steps of main() after the snapshot is written (lines 264-265) *)

\* diff = diff_campaigns(prev, snap)
Diff ==
    /\ pc = "diff"
    /\ ~DiffRaises(prev, snap)
    /\ \E r \in DiffCampaigns(prev, snap) : d' = r
    /\ pc' = "notify"
    /\ UNCHANGED <<file, stateFile, secret, telegram, targets, page, fields, item,
                   prev, snap, sent, cause, fileAtStart, runs>>

\* notify_for_targets(diff); main returns
Notify ==
    /\ pc = "notify"
    /\ LET texts == NotifyForTargets(d, targets)
       IN  IF texts = <<>> THEN sent' = sent
           ELSE \E m \in TgSend(texts[1], telegram) : sent' = Append(sent, m)
    /\ pc' = "done"
    /\ UNCHANGED <<file, stateFile, secret, telegram, targets, page, fields, item,
                   prev, snap, d, cause, fileAtStart, runs>>

----------------------------------------------------------------------------
(* scrape_all_campaigns: lines 189-214 *)

\* items: the rows that parse, in page order
RECURSIVE ParseRows(_)
ParseRows(rows) ==
    IF rows = <<>> THEN <<>>
    ELSE LET it == ParseCampaignRow(Head(rows))
         IN  (IF it.has THEN <<it.v>> ELSE <<>>) \o ParseRows(Tail(rows))

\* the keys of dedup in insertion order: each id where it first occurs
RECURSIVE DedupKeys(_, _)
DedupKeys(items, seen) ==
    IF items = <<>> THEN <<>>
    ELSE IF Head(items).id \in seen THEN DedupKeys(Tail(items), seen)
    ELSE <<Head(items).id>> \o DedupKeys(Tail(items), seen \cup {Head(items).id})

\* list(dedup.values()) after dedup[it["id"]] = it for every item
DedupKeepFirst(items) ==
    LET keys == DedupKeys(items, {})
    IN  [i \in DOMAIN keys |-> IndexByIdFirstWins(items)[keys[i]]]

Dedup(items) ==
    LET keys == DedupKeys(items, {})
    IN  [i \in DOMAIN keys |-> IndexById(items)[keys[i]]]

ScrapeAllCampaigns(rows, at) == Snapshot(at, Dedup(ParseRows(rows)))

----------------------------------------------------------------------------
(* The snapshot file and load_previous *)

Missing    == [kind |-> "missing"]                  \* SNAPSHOT does not exist
Unreadable == [kind |-> "unreadable"]               \* read_text raises
Garbage    == [kind |-> "text", json |-> None]      \* not JSON (e.g. a truncated write)
Doc(v)     == [kind |-> "text", json |-> Some(v)]   \* the JSON text of v

\* json.dumps(snap, ...)
JsonDumps(v) == Doc(v)

\* load_previous
LoadPrevious(f) ==
    IF f.kind = "text" /\ f.json.has THEN f.json.v
    ELSE [campaigns |-> <<>>]

----------------------------------------------------------------------------
(* Spec: runs of main(), lines 259-265 *)

Running == {"start", "load", "scrape", "write", "diff", "notify"}
Stopped == {"done", "crashed", "aborted"}

RunTitle == <<"Earn", " ", "a", " ", "charm", " ", "Coming", " ", "soon">>

RunRows ==
    { [inner |-> Text(C10TextRaw), content |-> Raise, anchors_read |-> 1,
       hrefs |-> << Href(TRUE, "", <<"directory", "category", R6Slug>>) >>],
      [inner |-> Text(RunTitle), content |-> Raise, anchors_read |-> 1,
       hrefs |-> << Href(TRUE, "", <<"directory", "category", R6Slug>>) >>],
      [inner |-> Text(RunTitle \o <<"\n", "Festival">>), content |-> Raise, anchors_read |-> 1,
       hrefs |-> << Href(TRUE, "", <<"directory", "category", R6Slug>>) >>],
      [inner |-> Text(<<"Hades", " ", "II", " ", "Campaign", "\n", "Starts", " ", "Jan", " ", "10">>),
       content |-> Raise, anchors_read |-> 1,
       hrefs |-> << Href(FALSE, Origin, <<"directory", "category", "Hades-II">>) >>],
      [inner |-> Raise, content |-> Null, anchors_read |-> 0, hrefs |-> <<>>] }

InitFiles ==
    { Missing, Unreadable, Garbage,
      Doc(PyList),
      Doc([scraped_at |-> 0]),
      Doc([scraped_at |-> 0, count |-> 1, campaigns |-> << [game_slug |-> R6Slug] >>]) }
    \cup {Doc(ScrapeAllCampaigns(<<r>>, 0)) : r \in RunRows}

Init ==
    /\ pc = "start"
    /\ runs = 1
    /\ file \in InitFiles
    /\ fileAtStart = file
    /\ stateFile \in BOOLEAN
    /\ secret \in {"", "valid", "malformed"}
    /\ telegram \in BOOLEAN
    /\ targets = {R6Slug}
    /\ page \in SeqsUpTo(RunRows, MaxRows)
    /\ prev = None /\ snap = None /\ d = NoDiff /\ sent = <<>>
    /\ cause = ""
    /\ fields = <<>> /\ item = None

\* restore_state_from_secret(), TMP_STATE present or restored
Restore ==
    /\ pc = "start"
    /\ stateFile \/ secret = "valid"
    /\ stateFile' = TRUE
    /\ pc' = "load"
    /\ UNCHANGED <<file, secret, telegram, targets, page, fields, item,
                   prev, snap, d, sent, cause, fileAtStart, runs>>

\* restore_state_from_secret() raises SystemExit (no secret) or the base64
\* decoder raises (malformed secret)
RestoreAbort ==
    /\ pc = "start"
    /\ ~stateFile /\ secret # "valid"
    /\ pc' = "aborted"
    /\ cause' = IF secret = "" THEN "missing secret" ELSE "malformed secret"
    /\ UNCHANGED <<file, stateFile, secret, telegram, targets, page, fields, item,
                   prev, snap, d, sent, fileAtStart, runs>>

\* prev = load_previous()
Load ==
    /\ pc = "load"
    /\ prev' = LoadPrevious(file)
    /\ pc' = "scrape"
    /\ UNCHANGED <<file, stateFile, secret, telegram, targets, page, fields, item,
                   snap, d, sent, cause, fileAtStart, runs>>

\* snap = scrape_all_campaigns(); TMP_STATE exists at this point of main
Scrape ==
    /\ pc = "scrape"
    /\ snap' = ScrapeAllCampaigns(page, runs)
    /\ pc' = "write"
    /\ UNCHANGED <<file, stateFile, secret, telegram, targets, page, fields, item,
                   prev, d, sent, cause, fileAtStart, runs>>

\* the browser launch or page.goto raises inside scrape_all_campaigns
ScrapeFail ==
    /\ pc = "scrape"
    /\ pc' = "crashed"
    /\ cause' = "scrape error"
    /\ UNCHANGED <<file, stateFile, secret, telegram, targets, page, fields, item,
                   prev, snap, d, sent, fileAtStart, runs>>

\* SNAPSHOT.write_text(json.dumps(snap, ...))
Write ==
    /\ pc = "write"
    /\ file' = JsonDumps(snap)
    /\ pc' = "diff"
    /\ UNCHANGED <<stateFile, secret, telegram, targets, page, fields, item,
                   prev, snap, d, sent, cause, fileAtStart, runs>>

\* write_text raises OSError or is cut off: the file could not be opened
\* (unchanged) or the write broke off (truncated); nothing in main catches it
WriteFail ==
    /\ pc = "write"
    /\ file' \in {file, Garbage}
    /\ pc' = "crashed"
    /\ cause' = "write error"
    /\ UNCHANGED <<stateFile, secret, telegram, targets, page, fields, item,
                   prev, snap, d, sent, fileAtStart, runs>>

\* diff_campaigns(prev, snap) raises; nothing in main catches it
DiffFail ==
    /\ pc = "diff"
    /\ DiffRaises(prev, snap)
    /\ pc' = "crashed"
    /\ cause' = "diff error"
    /\ UNCHANGED <<file, stateFile, secret, telegram, targets, page, fields, item,
                   prev, snap, d, sent, fileAtStart, runs>>

\* the process is stopped from outside (killed, job timeout) between two
\* steps of the run
Kill ==
    /\ pc \in Running
    /\ pc' = "crashed"
    /\ cause' = "killed"
    /\ UNCHANGED <<file, stateFile, secret, telegram, targets, page, fields, item,
                   prev, snap, d, sent, fileAtStart, runs>>

\* the next scheduled run of main(), against the page as it is then
NextRun ==
    /\ pc \in Stopped
    /\ runs < MaxRuns
    /\ runs' = runs + 1
    /\ pc' = "start"
    /\ page' \in SeqsUpTo(RunRows, MaxRows)
    /\ fileAtStart' = file
    /\ prev' = None /\ snap' = None /\ d' = NoDiff /\ sent' = <<>>
    /\ cause' = ""
    /\ UNCHANGED <<file, stateFile, secret, telegram, targets, fields, item>>

Next ==
    \/ Restore \/ RestoreAbort \/ Load \/ Scrape \/ ScrapeFail
    \/ Write \/ WriteFail \/ Diff \/ DiffFail \/ Notify \/ Kill \/ NextRun

Spec == Init /\ [][Next]_vars

----------------------------------------------------------------------------
(* SpecScrape: scrape_all_campaigns over every page within the bound *)

InitScrape ==
    /\ pc = "scrape"
    /\ page \in SeqsUpTo(RunRows, MaxScrapeRows)
    /\ runs = 1
    /\ snap = None /\ prev = None /\ d = NoDiff /\ sent = <<>>
    /\ targets = {R6Slug} /\ telegram = FALSE
    /\ file = Missing /\ fileAtStart = Missing /\ stateFile = TRUE /\ secret = ""
    /\ fields = <<>> /\ item = None /\ cause = ""

NextScrape == Scrape

SpecScrape == InitScrape /\ [][NextScrape]_vars

----------------------------------------------------------------------------
(* SpecDiff: diff_campaigns and notify_for_targets as functions of their *)
(* inputs, over every pair of snapshots within the bound                  *)

DiffIdSet    == {"id1", "id2"}
DiffSlugSet  == {"a", "b"}
DiffContents == {[timeframe |-> <<"t1">>, rewards |-> << <<"x">>, <<"y">> >>],
                 [timeframe |-> <<"t1">>, rewards |-> << <<"y">>, <<"x">> >>],
                 [timeframe |-> <<>>,     rewards |-> << <<"x">>, <<"y">> >>]}

DiffRecords ==
    {[id |-> i, game_slug |-> s, game_name |-> <<s>>,
      timeframe |-> c.timeframe, rewards |-> c.rewards] :
        i \in DiffIdSet, s \in DiffSlugSet, c \in DiffContents}

InitDiff ==
    /\ pc = "diff"
    /\ \/ \E k \in 0..MaxCampaigns : \E j \in 0..(MaxCampaigns - k) :
             \E o \in [1..k -> DiffRecords], n \in [1..j -> DiffRecords] :
                /\ prev = Snapshot("earlier", o)
                /\ snap = Snapshot("now", n)
       \/ \E n \in SeqsUpTo(DiffRecords, MaxCampaigns - 1) :
             \* the same snapshot on both sides
             /\ prev = Snapshot("now", n)
             /\ snap = prev
    /\ targets \in {{"a"}, {"a", "b"}}
    /\ telegram \in BOOLEAN
    /\ d = NoDiff
    /\ sent = <<>>
    /\ file = None /\ stateFile = TRUE /\ secret = "" /\ page = <<>>
    /\ fields = <<>> /\ item = None /\ cause = "" /\ fileAtStart = None /\ runs = 0

NextDiff == Diff \/ Notify

SpecDiff == InitDiff /\ [][NextDiff]_vars

----------------------------------------------------------------------------
(* SpecParse: parse_campaign_row applied to one row element *)

ParseTitles  == { <<"R6", " ", "Siege", " ", "Drops">>,
                  <<"Hades", " ", "II", " ", "Campaign">>,
                  <<"Raindrops", " ", "Festival">> }
ParseOffers  == { <<"Watch", " ", "4", " ", "hours", " ", "to", " ", "earn", " ", "charm...">>,
                  <<"Earn", " ", "a", " ", "charm">> }
ParseDates   == { <<"Jan", " ", "10", " ", "-", " ", "Jan", " ", "24">>,
                  <<"Starts", " ", "Jan", " ", "10">>,
                  <<"Coming", " ", "soon">> }
ParseBreaks  == { <<" ">>, <<"\n">>, <<" ", "\n", " ">> }

ParseTexts ==
    {t \o b1 \o o \o b2 \o w :
        t \in ParseTitles, o \in ParseOffers, w \in ParseDates,
        b1 \in ParseBreaks, b2 \in ParseBreaks}

ParseHrefs ==
    { << Href(TRUE, "", <<"directory", "category", R6Slug>>) >>,
      << Href(FALSE, Origin, <<"directory", "category", "Hades-II">>) >>,
      << Href(FALSE, "https://example.com", <<"promo">>),
         Href(TRUE, "", <<"directory", "category", R6Slug>>) >>,
      << Href(TRUE, "", <<"directory", "Category">>) >>,
      << Href(TRUE, "", <<"drops", "inventory">>) >>,
      << >> }

ParseElements ==
    {[inner |-> Text(t), content |-> Raise, hrefs |-> h, anchors_read |-> Len(h)] :
        t \in ParseTexts, h \in ParseHrefs}
    \cup
    {[inner |-> Raise, content |-> c, hrefs |-> h, anchors_read |-> k] :
        c \in {Raise, Null} \cup {Text(t) : t \in ParseDates},
        h \in ParseHrefs, k \in {0, 1}} 

InitParse ==
    /\ pc = "parse"
    /\ \E el \in ParseElements :
          /\ el.anchors_read <= Len(el.hrefs)
          /\ page = <<el>>
    /\ item = None
    /\ prev = None /\ snap = None /\ d = None /\ sent = <<>>
    /\ targets = {} /\ telegram = FALSE
    /\ file = None /\ stateFile = TRUE /\ secret = ""
    /\ fields = <<>> /\ cause = "" /\ fileAtStart = None /\ runs = 0

\* it = parse_campaign_row(row)
ParseRow ==
    /\ pc = "parse"
    /\ item' = ParseCampaignRow(page[1])
    /\ pc' = "parsed"
    /\ UNCHANGED <<file, stateFile, secret, telegram, targets, page, fields,
                   prev, snap, d, sent, cause, fileAtStart, runs>>

NextParse == ParseRow

SpecParse == InitParse /\ [][NextParse]_vars

----------------------------------------------------------------------------
(* SpecId: the identity function on two records' fields, and the diff of  *)
(* the two one-record snapshots they make                                  *)

IdSlugs     == {"a", "a|"}
IdTimeChars == {"t", "|"}
IdLineChars == {"x", ","}

IdLines == SeqsUpTo(IdLineChars, MaxLineLen) \ {<<>>}

IdFields ==
    {[game_slug |-> s, timeframe |-> t, rewards |-> r] :
        s \in IdSlugs, t \in SeqsUpTo(IdTimeChars, 1), r \in SeqsUpTo(IdLines, MaxRewards)}

ItemOf(f) ==
    Item(SlugTitle(f.game_slug), f.game_slug, <<>>, f.timeframe, None, None, f.rewards, <<>>)

InitId ==
    /\ pc = "ids"
    /\ fields \in IdFields \X IdFields
    /\ prev = None /\ snap = None /\ d = NoDiff /\ sent = <<>>
    /\ targets = {"a"} /\ telegram = FALSE
    /\ file = None /\ stateFile = TRUE /\ secret = "" /\ page = <<>>
    /\ item = None /\ cause = "" /\ fileAtStart = None /\ runs = 0

\* both records get their id; each makes a snapshot of its own
AssignIds ==
    /\ pc = "ids"
    /\ prev' = Snapshot("earlier", <<ItemOf(fields[1])>>)
    /\ snap' = Snapshot("now", <<ItemOf(fields[2])>>)
    /\ pc' = "diff"
    /\ UNCHANGED <<file, stateFile, secret, telegram, targets, page, fields, item,
                   d, sent, cause, fileAtStart, runs>>

NextId == AssignIds \/ Diff

SpecId == InitId /\ [][NextId]_vars

----------------------------------------------------------------------------
(* Claims about diff_campaigns and notify_for_targets (under SpecDiff) *)

Diffed == pc \in {"notify", "done"}

HasDuplicateIds(campaigns) == Len(campaigns) > Cardinality(IdsOf(campaigns))

RecordsWithId(campaigns, k) == {c \in Range(campaigns) : c.id = k}

Differ(c1, c2) == c1.timeframe # c2.timeframe \/ c1.rewards # c2.rewards

LastWithId(campaigns, k) ==
    LET at == {i \in DOMAIN campaigns : campaigns[i].id = k}
    IN  campaigns[CHOOSE i \in at : \A j \in at : j <= i]

NoRepeats(lst) == \A i, j \in DOMAIN lst : i # j => lst[i].id # lst[j].id

DisjointLists ==
    /\ IdsOf(d.added) \cap IdsOf(d.removed) = {}
    /\ IdsOf(d.added) \cap IdsOf(d.changed) = {}
    /\ IdsOf(d.removed) \cap IdsOf(d.changed) = {}

\* C4 as stated: added is exactly the records of new whose id is absent from
\* old, removed exactly the records of old whose id is absent from new,
\* changed exactly the ids present in both whose records differ in timeframe
\* or rewards, and no id is in two lists.
C4_DiffAllRecords ==
    Diffed =>
        LET o == prev.campaigns
            n == snap.campaigns
        IN  /\ Range(d.added) = {c \in Range(n) : c.id \notin IdsOf(o)}
            /\ Range(d.removed) = {c \in Range(o) : c.id \notin IdsOf(n)}
            /\ IdsOf(d.changed) =
                  {k \in IdsOf(o) \cap IdsOf(n) :
                      \E c1 \in RecordsWithId(o, k), c2 \in RecordsWithId(n, k) :
                          Differ(c1, c2)}
            /\ DisjointLists

\* C4 (amended): diff_campaigns reports one record per id, namely the last
\* record bearing that id in its list: added holds, once each, the last
\* records of new for the ids absent from old; removed the last records of
\* old for the ids absent from new; changed the last records of new for the
\* ids present in both whose last records differ in timeframe or in the
\* ordered rewards; no id is in two lists.
C4_DiffLastRecords ==
    Diffed =>
        LET o == prev.campaigns
            n == snap.campaigns
            both == {k \in IdsOf(o) \cap IdsOf(n) :
                        Differ(LastWithId(o, k), LastWithId(n, k))}
        IN  /\ Range(d.added) = {LastWithId(n, k) : k \in IdsOf(n) \ IdsOf(o)}
            /\ Range(d.removed) = {LastWithId(o, k) : k \in IdsOf(o) \ IdsOf(n)}
            /\ Range(d.changed) = {LastWithId(n, k) : k \in both}
            /\ NoRepeats(d.added) /\ NoRepeats(d.removed) /\ NoRepeats(d.changed)
            /\ DisjointLists

\* a diff with a changed record, taken from an old snapshot in which that
\* id occurs twice with different contents
C4_Witness ==
    /\ pc = "notify"
    /\ HasDuplicateIds(prev.campaigns)
    /\ Cardinality(Range(prev.campaigns)) > 1
    /\ d.changed # <<>>

\* C5: diff_campaigns(S, S) has empty added, removed and changed, also when
\* an id occurs several times in S.
C5_DiffSelfEmpty ==
    (Diffed /\ prev = snap) => d = NoDiff

\* S diffed against itself, S holding two different records under one id
C5_Witness ==
    /\ pc = "notify"
    /\ prev = snap
    /\ HasDuplicateIds(snap.campaigns)
    /\ Cardinality(Range(snap.campaigns)) > 1

OfTargets(lst) == {i \in DOMAIN lst : lst[i].game_slug \in targets}

\* C9: notify_for_targets makes exactly one send when an added or changed
\* record has its game_slug in the watch set and none otherwise, and what it
\* sends is what it would send were the removed list empty.
C9_NotifyOnce ==
    pc = "done" =>
        /\ Len(sent) = IF OfTargets(d.added) # {} \/ OfTargets(d.changed) # {}
                       THEN 1 ELSE 0
        /\ [i \in DOMAIN sent |-> sent[i].text]
              = NotifyForTargets([d EXCEPT !.removed = <<>>], targets)

\* one message was sent although a watched game's record was removed
C9_Witness ==
    /\ pc = "done"
    /\ Len(sent) = 1
    /\ OfTargets(d.removed) # {}

----------------------------------------------------------------------------
(* Claims about the identity function (under SpecId) *)

SameFields(a, b) ==
    /\ a.game_slug = b.game_slug
    /\ a.timeframe = b.timeframe
    /\ a.rewards = b.rewards

\* C6: two records get the same id exactly when their game_slug, timeframe
\* and rewards are equal (the hash taken as collision-free).
C6_IdSeparatesFields ==
    pc \in {"diff", "notify"} =>
        LET a == prev.campaigns[1]
            b == snap.campaigns[1]
        IN  (a.id = b.id) <=> SameFields(a, b)

\* C7: an update of a campaign (same game_slug, timeframe or rewards
\* different) is reported as old id removed and new id added, and changed is
\* empty.
C7_UpdateIsRemovedPlusAdded ==
    pc = "notify" =>
        LET a == prev.campaigns[1]
            b == snap.campaigns[1]
        IN  (a.game_slug = b.game_slug /\ ~SameFields(a, b)) =>
                /\ d.changed = <<>>
                /\ a.id \in IdsOf(d.removed)
                /\ b.id \in IdsOf(d.added)

----------------------------------------------------------------------------
(* Claims about parse_campaign_row (under SpecParse) *)

C10Text == <<"R6", " ", "Siege", " ", "Drops", " ",
             "Watch", " ", "4", " ", "hours", " ", "to", " ", "earn", " ", "charm...", " ",
             "Jan", " ", "10", " ", "-", " ", "Jan", " ", "24">>

\* sub occurs in s as a contiguous run
Contains(s, sub) ==
    \E i \in 0..(Len(s) - Len(sub)) : SubSeq(s, i + 1, i + Len(sub)) = sub

C10Row(el) ==
    /\ RowText(el) = C10Text
    /\ \E i \in DOMAIN RowLinks(el) :
          RowLinks(el)[i] = Href(FALSE, Origin, <<"directory", "category", R6Slug>>)

\* C10: the row "R6 Siege Drops Watch 4 hours to earn charm... Jan 10 - Jan 24"
\* with a link to /directory/category/tom-clancys-rainbow-six-siege parses to
\* a record with that game_slug, a timeframe containing "Jan 10 - Jan 24",
\* start_raw "Jan 10", end_raw "Jan 24" and a reward line with the watch hours.
C10_ScenarioRecord ==
    (pc = "parsed" /\ C10Row(page[1])) =>
        /\ item.has
        /\ item.v.game_slug = R6Slug
        /\ Contains(item.v.timeframe, <<"Jan", " ", "10", " ", "-", " ", "Jan", " ", "24">>)
        /\ item.v.start_raw = Some(<<"Jan", " ", "10">>)
        /\ item.v.end_raw = Some(<<"Jan", " ", "24">>)
        /\ \E i \in DOMAIN item.v.rewards :
              Contains(item.v.rewards[i], <<"Watch", " ", "4", " ", "hours">>)

----------------------------------------------------------------------------
(* Claims about a run of main() (under Spec) *)

\* C1: wherever a run stops before notify_for_targets has returned (during
\* or after scraping, during the diff, during notification; a write that
\* itself breaks off is left aside), the snapshot file still holds what it
\* held when the run started, so the next run diffs against the same prior
\* snapshot.
C1_CrashKeepsPriorSnapshot ==
    (pc = "crashed" /\ cause # "write error") => file = fileAtStart

\* C2: once the startup check has passed, no failure of the snapshot write
\* or of the notification send ends the run.
C2_CollaboratorFailureNotFatal ==
    pc = "crashed" => cause \notin {"write error", "send error"}

LoadFell ==
    fileAtStart.kind # "text" \/ ~fileAtStart.json.has

\* C3: whatever the snapshot file holds, the run is not ended by the prior
\* snapshot, and after a failed load every record of the new snapshot is
\* classified as added.
C3_PriorSnapshotNeverFatal ==
    /\ pc = "crashed" => cause # "diff error"
    /\ (pc \in {"notify", "done"} /\ LoadFell) =>
           /\ IdsOf(d.added) = IdsOf(snap.campaigns)
           /\ d.removed = <<>> /\ d.changed = <<>>

----------------------------------------------------------------------------
(* Claims about scrape_all_campaigns (under SpecScrape) *)

\* C8: the snapshot holds each id of the parsed rows exactly once, the
\* record kept for an id is the last row parsed with that id, and count is
\* the number of campaigns.
C8_SnapshotIdsUnique ==
    pc = "write" =>
        LET items == ParseRows(page)
            kept  == snap.campaigns
        IN  /\ \A i, j \in DOMAIN kept : i # j => kept[i].id # kept[j].id
            /\ IdsOf(kept) = IdsOf(items)
            /\ \A i \in DOMAIN kept : kept[i] = LastWithId(items, kept[i].id)
            /\ snap.count = Len(kept)

\* two rows with the same id and different texts were parsed; one was kept
C8_Witness ==
    /\ pc = "write"
    /\ \E i, j \in DOMAIN ParseRows(page) :
          /\ i < j
          /\ ParseRows(page)[i].id = ParseRows(page)[j].id
          /\ ParseRows(page)[i] # ParseRows(page)[j]
    /\ Len(snap.campaigns) < Len(ParseRows(page))

----------------------------------------------------------------------------
(* Claims about the digest as a function of its inputs (under SpecDiff) *)

\* C11: for a fixed prior snapshot, new snapshot and watch set the digest is
\* determined: the text handed to tg_send is the text composed from every
\* result diff_campaigns can return for these snapshots, whatever the order
\* in which the sets of added and common ids are iterated.
C11_DigestDetermined ==
    pc = "done" =>
        \A r \in DiffCampaigns(prev, snap) :
            NotifyForTargets(r, targets) = [i \in DOMAIN sent |-> sent[i].text]

====
